---- MODULE Spec2Model ----
(***************************************************************************)
(* Matching router of dusata_fastapi (app/routers/matching.py).            *)
(*                                                                         *)
(* The store holds the User rows (only matching_status is ever written)    *)
(* and the Match table.  Every HTTP request runs in its own AsyncSession   *)
(* (database.py get_db) and is suspended at each await, so concurrent      *)
(* handlers interleave between their store reads and their commit.  The    *)
(* reads of one handler that fetch only immutable data (whether a user id  *)
(* exists) commute with every other step and are folded into the step of   *)
(* the read before them.  The candidate list is one query that reads only  *)
(* the User rows; it is checked over every assignment of matching_status   *)
(* (SpecList), which covers every table the write operations can produce.  *)
(***************************************************************************)
EXTENDS Integers, Sequences, FiniteSets, TLC

\* ------------------------------------------------------------------ bounds
NumUsers == 2
NumHandlers == 2
MaxCalls == 3
NumListUsers == 6

Users == 1..NumUsers
\* ids a client can send: every user id and one id that resolves to no user
Ids == 1..(NumUsers + 1)
Handlers == 1..NumHandlers
\* the users of the store in which candidate lists are checked
ListUsers == 1..NumListUsers

VARIABLES
    matching_status,   \* User.matching_status of every user row
    matches,           \* the Match table, in creation (created_at) order
    calls,             \* per handler slot: the request in flight
    last,              \* the response most recently sent
    ncalls             \* the number of requests received so far

vars == <<matching_status, matches, calls, last, ncalls>>

UserStatus == {"none", "waiting", "accept"}
MatchStatus == {"waiting", "accept", "reject"}

\* a free handler slot
Idle ==
    [pc |-> "idle", cu |-> 0, arg |-> 0, accept |-> FALSE,
     m |-> 0, m_status |-> "-"]

\* a response: the operation, the authenticated user, the id sent, the outcome
Response(op, u, id, res) == [op |-> op, cu |-> u, arg |-> id, result |-> res]

Init ==
    /\ matching_status = [u \in Users |-> "none"]
    /\ matches = <<>>
    /\ calls = [h \in Handlers |-> Idle]
    /\ last = Response("-", 0, 0, "-")
    /\ ncalls = 0

\* ------------------------------------------------------------- pure parts

\* the check of line 118 left out altogether
AlreadyMatchedNever(s) == FALSE

\* the check of line 118 with "accept" left out
AlreadyMatchedWaitingOnly(s) == s = "waiting"

\* matching.py:118  current_user.matching_status in ["waiting", "accept"]
AlreadyMatched(s) == s \in {"waiting", "accept"}

\* the lookup of lines 153-156 without its responder_id condition
FindMatchAnyResponder(ms, id, r) ==
    {i \in DOMAIN ms : ms[i].requester_id = id}

\* matching.py:153-156  rows with requester_id == match_id and
\* responder_id == current_user.id
FindMatch(ms, id, r) ==
    {i \in DOMAIN ms : ms[i].requester_id = id /\ ms[i].responder_id = r}

\* matching.py:129-133  the Match row a request adds
NewMatch(u, p) ==
    [requester_id |-> u, responder_id |-> p, status |-> "waiting"]

\* a request is received and served by the first free handler slot
Receive(h) ==
    /\ calls[h].pc = "idle"
    /\ \A k \in Handlers : k < h => calls[k].pc # "idle"
    /\ ncalls < MaxCalls
    /\ ncalls' = ncalls + 1

\* ------------------------------------------------- send_matching_request

\* lines 112-126 without the partner check of lines 125-126
BeginRequestNoPartnerCheck(h, u, p) ==
    /\ Receive(h)
    /\ IF AlreadyMatched(matching_status[u])
       THEN /\ last' = Response("request", u, p, "Conflict")
            /\ UNCHANGED calls
       ELSE /\ calls' = [calls EXCEPT ![h] =
                           [Idle EXCEPT !.pc = "req_commit", !.cu = u,
                                        !.arg = p]]
            /\ UNCHANGED last
    /\ UNCHANGED <<matching_status, matches>>

\* lines 112-126: get_current_user loads the user row, line 118 rejects a
\* matched user, line 124 looks the partner up; the handler is then
\* suspended until its commit
BeginRequest(h, u, p) ==
    /\ Receive(h)
    /\ IF AlreadyMatched(matching_status[u])
       THEN /\ last' = Response("request", u, p, "Conflict")
            /\ UNCHANGED calls
       ELSE IF p \notin Users
       THEN /\ last' = Response("request", u, p, "NotFound")
            /\ UNCHANGED calls
       ELSE /\ calls' = [calls EXCEPT ![h] =
                           [Idle EXCEPT !.pc = "req_commit", !.cu = u,
                                        !.arg = p]]
            /\ UNCHANGED last
    /\ UNCHANGED <<matching_status, matches>>

\* lines 129-140 without line 137: the requester's status is not updated
RequestCommitNoStatus(h) ==
    LET c == calls[h] IN
    /\ c.pc = "req_commit"
    /\ matches' = Append(matches, NewMatch(c.cu, c.arg))
    /\ calls' = [calls EXCEPT ![h] = Idle]
    /\ last' = Response("request", c.cu, c.arg, "ok")
    /\ UNCHANGED <<matching_status, ncalls>>

\* lines 129-140: add the Match, set the requester waiting, commit
RequestCommit(h) ==
    LET c == calls[h] IN
    /\ c.pc = "req_commit"
    /\ matches' = Append(matches, NewMatch(c.cu, c.arg))
    /\ matching_status' = [matching_status EXCEPT ![c.cu] = "waiting"]
    /\ calls' = [calls EXCEPT ![h] = Idle]
    /\ last' = Response("request", c.cu, c.arg, "ok")
    /\ UNCHANGED ncalls

\* ----------------------------------------------- handle_matching_request

\* the status a response writes to the Match (lines 170-178)
Decision(acc) == IF acc THEN "accept" ELSE "reject"

\* lines 143-167: get_current_user, then the lookup; scalar_one_or_none
\* raises when several rows match
RespondQuery(h, u, id, acc) ==
    LET found == FindMatch(matches, id, u) IN
    /\ Receive(h)
    /\ IF found = {}
       THEN /\ last' = Response("respond", u, id, "NotFound")
            /\ UNCHANGED calls
       ELSE IF Cardinality(found) > 1
       THEN /\ last' = Response("respond", u, id, "MultipleResultsFound")
            /\ UNCHANGED calls
       ELSE /\ LET i == CHOOSE j \in found : TRUE IN
               calls' = [calls EXCEPT ![h] =
                           [Idle EXCEPT !.pc = "resp_commit", !.cu = u,
                                        !.arg = id, !.accept = acc, !.m = i,
                                        !.m_status = matches[i].status]]
            /\ UNCHANGED last
    /\ UNCHANGED <<matching_status, matches>>

\* lines 170-181: set the statuses and commit
RespondCommit(h) ==
    LET c == calls[h]
        requester == matches[c.m].requester_id
    IN
    /\ c.pc = "resp_commit"
    /\ matches' = [matches EXCEPT ![c.m].status = Decision(c.accept)]
    /\ matching_status' =
         IF c.accept
         THEN [v \in Users |->
                 IF v = requester \/ v = c.cu THEN "accept"
                 ELSE matching_status[v]]
         ELSE matching_status
    /\ calls' = [calls EXCEPT ![h] = Idle]
    /\ last' = Response("respond", c.cu, c.arg, "ok")
    /\ UNCHANGED ncalls

\* ---------------------------------------------------------- user profiles

\* matching.py:14-31
mbti_compatibility ==
    [INFP |-> {"ENFJ", "ENTJ"}, ENFP |-> {"INFJ", "INTJ"},
     INFJ |-> {"ENFP", "ENTP"}, ENFJ |-> {"INFP", "ISFP"},
     INTJ |-> {"ENFP", "ENTP"}, ENTJ |-> {"INFP", "INTP"},
     INTP |-> {"ENTJ", "ISTJ"}, ENTP |-> {"INFJ", "INTJ"},
     ISFP |-> {"ESFJ", "ESTJ", "ESTP"}, ESFP |-> {"ISFJ", "ISTJ"},
     ISTP |-> {"ESFJ", "ESTJ"}, ESTP |-> {"ISFJ", "ISTJ"},
     ISFJ |-> {"ESFP", "ESTP"}, ESFJ |-> {"ISFP", "ISTP"},
     ISTJ |-> {"ESFP", "ESTP"}, ESTJ |-> {"ISFP", "ISTP"}]

\* line 50: mbti_compatibility.get(current_mbti, [])
Compatible(t) ==
    IF t \in DOMAIN mbti_compatibility THEN mbti_compatibility[t] ELSE {}

\* line 68: .limit(4)
ListLimit == 4

\* the immutable columns of the User rows: user 1 is a man, the others are
\* women; the types repeat in this order ("XXXX" is no key of the table)
Types == <<"INFP", "ENFJ", "ENTJ", "ISFP", "INFP", "XXXX">>

Gender(u) == IF u = 1 THEN "M" ELSE "F"

Mbti(u) == Types[((u - 1) % Len(Types)) + 1]

\* ------------------------------------------------------ get_matching_list

\* lines 56-60 without the matching_status condition
EligibleAnyStatus(ms, U) ==
    {v \in DOMAIN ms : Gender(v) # Gender(U) /\ v # U}

\* lines 56-60: the rows the query selects
Eligible(ms, U) ==
    {v \in DOMAIN ms :
        ms[v] = "none" /\ Gender(v) # Gender(U) /\ v # U}

\* lines 62-65 with the two values of the case exchanged
RankExchanged(U, v) == IF Mbti(v) \in Compatible(Mbti(U)) THEN 2 ELSE 1

\* lines 62-65: case((User.mbti.in_(compatible_mbtis), 1), else_=2)
Rank(U, v) == IF Mbti(v) \in Compatible(Mbti(U)) THEN 1 ELSE 2

RECURSIVE Perms(_)
\* every order of the rows of S
Perms(S) ==
    IF S = {} THEN {<<>>}
    ELSE UNION {{<<x>> \o p : p \in Perms(S \ {x})} : x \in S}

\* lines 61-67: order_by(case(...), func.random()): the rows of case value
\* 1, then those of value 2, each group in any order
Orderings(S, U) ==
    {a \o b : a \in Perms({v \in S : Rank(U, v) = 1}),
              b \in Perms({v \in S : Rank(U, v) = 2})}

\* line 68: the first ListLimit rows
Limit(s) == SubSeq(s, 1, IF Len(s) < ListLimit THEN Len(s) ELSE ListLimit)

\* lines 54-71: the row lists the query can return
ListResults(ms, U) == {Limit(s) : s \in Orderings(Eligible(ms, U), U)}

\* a response that carries user rows
Returned(op, u, us) ==
    [op |-> op, cu |-> u, arg |-> 0, result |-> "ok", users |-> us]

\* lines 43-74 without the check of lines 72-73
ListCandidatesNoEmptyCheck(h, u) ==
    /\ Receive(h)
    /\ \E r \in ListResults(matching_status, u) :
          last' = Returned("list", u, r)
    /\ UNCHANGED <<matching_status, matches, calls>>

\* lines 43-74: one query, 404 when it returns no row
ListCandidates(h, u) ==
    /\ Receive(h)
    /\ \E r \in ListResults(matching_status, u) :
          last' = IF r = <<>> THEN Response("list", u, 0, "NotFound")
                  ELSE Returned("list", u, r)
    /\ UNCHANGED <<matching_status, matches, calls>>

\* --------------------------------------------------- get_matching_partner

\* lines 86-90: the Matches of a user, of any status
PartyMatches(ms, u) ==
    {i \in DOMAIN ms :
        /\ ms[i].requester_id = u \/ ms[i].responder_id = u
        /\ ms[i].status \in {"waiting", "accept", "reject"}}

\* the first row in ascending order of created_at
Oldest(S) == CHOOSE i \in S : \A j \in S : i <= j

\* lines 91-94: order_by(desc(Match.created_at)), first(); the table is
\* kept in the order of created_at
Newest(S) == CHOOSE i \in S : \A j \in S : j <= i

\* lines 100-104
PartnerId(row, u) ==
    IF row.requester_id = u THEN row.responder_id ELSE row.requester_id

\* lines 78-109: the query, then the partner row; 404 without either
GetActivePartner(h, u) ==
    LET S == PartyMatches(matches, u) IN
    /\ Receive(h)
    /\ last' = IF S = {} THEN Response("partner", u, 0, "NotFound")
               ELSE LET p == PartnerId(matches[Newest(S)], u) IN
                    IF p \notin DOMAIN matching_status
                    THEN Response("partner", u, 0, "NotFound")
                    ELSE Returned("partner", u, <<p>>)
    /\ UNCHANGED <<matching_status, matches, calls>>

\* ---------------------------------------------------------- specification

Next ==
    \/ \E h \in Handlers, u \in Users, p \in Ids : BeginRequest(h, u, p)
    \/ \E h \in Handlers : RequestCommit(h)
    \/ \E h \in Handlers, u \in Users, id \in Ids, acc \in BOOLEAN :
          RespondQuery(h, u, id, acc)
    \/ \E h \in Handlers : RespondCommit(h)
    \/ \E h \in Handlers, u \in Users : GetActivePartner(h, u)

Spec == Init /\ [][Next]_vars

\* every handler runs from its first read to its commit without another
\* handler in between
Quiet == \A h \in Handlers : calls[h].pc = "idle"

NextAtomic ==
    \/ \E h \in Handlers, u \in Users, p \in Ids :
          Quiet /\ BeginRequest(h, u, p)
    \/ \E h \in Handlers : RequestCommit(h)
    \/ \E h \in Handlers, u \in Users, id \in Ids, acc \in BOOLEAN :
          Quiet /\ RespondQuery(h, u, id, acc)
    \/ \E h \in Handlers : RespondCommit(h)
    \/ \E h \in Handlers, u \in Users : Quiet /\ GetActivePartner(h, u)

SpecAtomic == Init /\ [][NextAtomic]_vars

\* the candidate list over every store of ListUsers: each user's
\* matching_status is any of the three values
InitList ==
    /\ matching_status \in [ListUsers -> UserStatus]
    /\ matches = <<>>
    /\ calls = [h \in Handlers |-> Idle]
    /\ last = Response("-", 0, 0, "-")
    /\ ncalls = 0

NextList == \E h \in Handlers, u \in ListUsers : ListCandidates(h, u)

SpecList == InitList /\ [][NextList]_vars

TypeOK ==
    /\ matching_status \in [Users -> UserStatus]
    /\ Len(matches) <= MaxCalls
    /\ ncalls \in 0..MaxCalls
    /\ \A i \in DOMAIN matches :
          /\ matches[i].requester_id \in Users
          /\ matches[i].responder_id \in Users
          /\ matches[i].status \in MatchStatus
    /\ \A h \in Handlers : calls[h].pc \in {"idle", "req_commit", "resp_commit"}

\* ------------------------------------------------------------ properties

Active == {"waiting", "accept"}

\* the Matches that reference user u as requester or as responder
MatchesOf(u) ==
    {i \in DOMAIN matches :
        matches[i].requester_id = u \/ matches[i].responder_id = u}

\* a Match with requester id and responder r is in the table
MatchExists(id, r) ==
    \E i \in DOMAIN matches :
        matches[i].requester_id = id /\ matches[i].responder_id = r

\* handler h commits in this step
Commits(h, pc) == calls[h].pc = pc /\ calls'[h].pc = "idle"

\* C1: in every reachable state every user is requester or responder of at
\* most one Match whose status is waiting or accept.
C1_OneActiveMatchPerUser ==
    \A u \in Users :
        Cardinality({i \in MatchesOf(u) : matches[i].status \in Active}) <= 1

\* C2 as stated: a user whose matching_status is none is neither requester
\* nor responder of a Match whose status is waiting or accept.
C2_NoneHasNoActiveMatch ==
    \A u \in Users :
        matching_status[u] = "none" =>
            \A i \in MatchesOf(u) : matches[i].status \notin Active

\* C2 as amended: a user whose matching_status is none is not the requester
\* of a Match whose status is waiting or accept and not the responder of a
\* Match whose status is accept; it may be the responder of waiting Matches.
C2_NoneIsNoRequester ==
    \A u \in Users :
        matching_status[u] = "none" =>
            \A i \in MatchesOf(u) :
                /\ matches[i].requester_id = u => matches[i].status \notin Active
                /\ matches[i].responder_id = u => matches[i].status # "accept"

\* a user with status none is the responder of a waiting Match of a waiting
\* requester
C2_Witness ==
    \E u \in Users, i \in DOMAIN matches :
        /\ matching_status[u] = "none"
        /\ matches[i].responder_id = u
        /\ matches[i].status = "waiting"
        /\ matching_status[matches[i].requester_id] = "waiting"

\* C3: a Match changes status at most once: once its status is accept or
\* reject no later step changes it.
C3_StatusChangesOnce ==
    [][\A i \in DOMAIN matches :
          matches[i].status # "waiting" =>
              matches'[i].status = matches[i].status]_vars

\* C4: two concurrent requestMatch calls of one user do not both succeed:
\* a call passes the status check only when its user has requested no Match,
\* so when it commits its new Match no other Match of that requester, made
\* by a call that ran concurrently with it, is in the table.
C4_NoConcurrentDoubleRequest ==
    [][\A h \in Handlers :
          Commits(h, "req_commit") =>
              \A i \in DOMAIN matches :
                  matches[i].requester_id # calls[h].cu]_vars

\* C5: two concurrent respondToMatch calls on one Match do not both take
\* effect: a rejecting call that read the Match as waiting does not commit
\* its reject onto a Match that another call accepted in between, setting
\* requester and responder to accept.
C5_NoConcurrentAcceptReject ==
    [][\A h \in Handlers :
          (Commits(h, "resp_commit") /\ ~calls[h].accept
                /\ calls[h].m_status = "waiting") =>
              ~(/\ matches[calls[h].m].status = "accept"
                /\ matching_status[matches[calls[h].m].requester_id] = "accept"
                /\ matching_status[matches[calls[h].m].responder_id] = "accept"
                /\ matches'[calls[h].m].status = "reject")]_vars

\* C6: requestMatch issued by a user whose matching_status is waiting or
\* accept fails with Conflict for every partner id, creates no Match and
\* changes no user's matching_status.
C6_MatchedRequesterConflict ==
    [][\A h \in Handlers, u \in Users, p \in Ids :
          (BeginRequest(h, u, p) /\ matching_status[u] \in {"waiting", "accept"})
              => /\ last' = Response("request", u, p, "Conflict")
                 /\ UNCHANGED <<matching_status, matches, calls>>]_vars

\* a user whose status is accept was answered Conflict
C6_Witness ==
    /\ last.op = "request"
    /\ last.result = "Conflict"
    /\ matching_status[last.cu] = "accept"

\* C7: a successful requestMatch(U, P) adds exactly one Match (waiting, U, P),
\* sets U waiting, and leaves P's status, every other user's status and
\* every existing Match unchanged.
C7_RequestEffect ==
    [][\A h \in Handlers :
          Commits(h, "req_commit") =>
              LET U == calls[h].cu
                  P == calls[h].arg
              IN /\ matches' = Append(matches,
                                      [requester_id |-> U, responder_id |-> P,
                                       status |-> "waiting"])
                 /\ matching_status'[U] = "waiting"
                 /\ matching_status'[P] = matching_status[P]
                 /\ \A v \in Users \ {U} :
                        matching_status'[v] = matching_status[v]]_vars

\* C8: respondToMatch(P, U.id, accept=true), when a Match with requester U
\* and responder P exists, sets that Match to accept and U and P to accept.
C8_AcceptEffect ==
    [][/\ \A h \in Handlers, P \in Users, U \in Ids :
             (RespondQuery(h, P, U, TRUE) /\ MatchExists(U, P))
                 => calls'[h].pc = "resp_commit"
       /\ \A h \in Handlers :
             (Commits(h, "resp_commit") /\ calls[h].accept) =>
                 /\ matches'[calls[h].m].status = "accept"
                 /\ matching_status'[calls[h].arg] = "accept"
                 /\ matching_status'[calls[h].cu] = "accept"]_vars

\* C9: respondToMatch(P, U.id, accept=false), when a Match with requester U
\* and responder P exists, sets that Match to reject and changes no user's
\* matching_status.
C9_RejectEffect ==
    [][/\ \A h \in Handlers, P \in Users, U \in Ids :
             (RespondQuery(h, P, U, FALSE) /\ MatchExists(U, P))
                 => calls'[h].pc = "resp_commit"
       /\ \A h \in Handlers :
             (Commits(h, "resp_commit") /\ ~calls[h].accept) =>
                 /\ matches'[calls[h].m].status = "reject"
                 /\ UNCHANGED matching_status]_vars

\* C10: respondToMatch(R, id, accept) fails and changes no Match status and
\* no user's matching_status when no Match has requester id and responder R;
\* a Match's status is only changed by a call of that Match's responder.
C10_OnlyResponderDecides ==
    [][/\ \A h \in Handlers, R \in Users, id \in Ids, acc \in BOOLEAN :
             (RespondQuery(h, R, id, acc) /\ ~MatchExists(id, R))
                 => /\ last' = Response("respond", R, id, "NotFound")
                    /\ UNCHANGED <<matching_status, matches, calls>>
       /\ \A i \in DOMAIN matches :
             matches'[i].status # matches[i].status =>
                 \E h \in Handlers :
                     /\ Commits(h, "resp_commit")
                     /\ calls[h].cu = matches[i].responder_id
                     /\ calls[h].arg = matches[i].requester_id]_vars

\* a user was refused a Match of the requester it named, because another
\* user is that Match's responder
C10_Witness ==
    /\ last.op = "respond"
    /\ last.result = "NotFound"
    /\ \E i \in DOMAIN matches :
          /\ matches[i].requester_id = last.arg
          /\ matches[i].responder_id # last.cu

\* C11: in every reachable state every Match has requester_id different
\* from responder_id.
C11_DistinctParties ==
    \A i \in DOMAIN matches :
        matches[i].requester_id # matches[i].responder_id

\* C16: requestMatch(U, partnerId) of a user U with matching_status none
\* fails with NotFound when partnerId resolves to no user, creates no Match
\* and leaves U.matching_status at none.
C16_UnknownPartnerNotFound ==
    [][\A h \in Handlers, U \in Users, p \in Ids :
          (BeginRequest(h, U, p) /\ matching_status[U] = "none"
                /\ p \notin DOMAIN matching_status)
              => /\ last' = Response("request", U, p, "NotFound")
                 /\ matching_status'[U] = "none"
                 /\ UNCHANGED <<matching_status, matches, calls>>]_vars

\* a user with status none was answered NotFound for an id of no user, and
\* is the requester of no Match
C16_Witness ==
    /\ last.op = "request"
    /\ last.result = "NotFound"
    /\ last.arg \notin Users
    /\ matching_status[last.cu] = "none"
    /\ \A i \in DOMAIN matches : matches[i].requester_id # last.cu

\* C17: once a requester's Match has been rejected, the requester's
\* matching_status is waiting in every later state: it is waiting when the
\* reject is committed and after every step taken from then on.
C17_RejectedStaysWaiting ==
    [][\A i \in DOMAIN matches :
          (matches[i].status = "reject" \/ matches'[i].status = "reject")
              => matching_status'[matches[i].requester_id] = "waiting"]_vars

\* C18: a user's matching_status never moves backward: waiting or accept
\* never becomes none again, and accept stays accept.
C18_StatusNeverBackward ==
    [][\A u \in Users :
          /\ matching_status[u] # "none" => matching_status'[u] # "none"
          /\ matching_status[u] = "accept" => matching_status'[u] = "accept"]_vars

\* C19: when each operation runs atomically, every user is the requester of
\* at most one Match, so the lookup by (requester id, responder id) never
\* finds more than one Match.
C19_OneMatchPerRequester ==
    /\ \A u \in Users :
          Cardinality({i \in DOMAIN matches : matches[i].requester_id = u}) <= 1
    /\ \A id \in Ids, r \in Users :
          Cardinality({i \in DOMAIN matches :
                          matches[i].requester_id = id
                          /\ matches[i].responder_id = r}) <= 1
    /\ last.result # "MultipleResultsFound"

\* a user whose Match was accepted asked for a second Match and was refused
C19_Witness ==
    /\ last.op = "request"
    /\ last.result = "Conflict"
    /\ \E i \in DOMAIN matches :
          /\ matches[i].requester_id = last.cu
          /\ matches[i].status = "accept"

\* C20: in every reachable state, whenever a Match has status accept, both
\* its requester and its responder have matching_status accept.
C20_AcceptedPartiesAccept ==
    \A i \in DOMAIN matches :
        matches[i].status = "accept" =>
            /\ matching_status[matches[i].requester_id] = "accept"
            /\ matching_status[matches[i].responder_id] = "accept"

\* the users a candidate list of U may hold, and those of them whose type
\* is in U's compatibility set
Candidates(U) ==
    {v \in DOMAIN matching_status :
        v # U /\ Gender(v) # Gender(U) /\ matching_status[v] = "none"}

CompatibleWith(U) == IF Mbti(U) \in DOMAIN mbti_compatibility
                     THEN mbti_compatibility[Mbti(U)] ELSE {}

Listed(r) == {r.users[k] : k \in 1..Len(r.users)}

\* C12: in every store state and for every user U, every user returned by
\* the candidate list of U is different from U, has a gender different from
\* U's, and has matching_status none at the time of the query.
C12_CandidatesEligible ==
    [][\A h \in Handlers, U \in DOMAIN matching_status :
          (ListCandidates(h, U) /\ last'.result = "ok")
              => \A v \in Listed(last') :
                    /\ v # U
                    /\ Gender(v) # Gender(U)
                    /\ matching_status[v] = "none"]_vars

\* a list was returned while a user of the other gender was left out for
\* being matched
C12_Witness ==
    /\ last.op = "list"
    /\ last.result = "ok"
    /\ \E v \in DOMAIN matching_status :
          /\ Gender(v) # Gender(last.cu)
          /\ matching_status[v] # "none"
          /\ v \notin Listed(last)

\* C13: the candidate list of U is the first min(4, n) of the n eligible
\* users in an order that places the users of a compatible type first: it
\* has min(4, n) distinct eligible users, every compatible one precedes
\* every incompatible one, and no incompatible user is returned while an
\* eligible compatible one is left out.
C13_CompatibleFirst ==
    [][\A h \in Handlers, U \in DOMAIN matching_status :
          (ListCandidates(h, U) /\ last'.result = "ok")
              => LET r == last'.users
                     n == Cardinality(Candidates(U))
                     good(v) == Mbti(v) \in CompatibleWith(U)
                 IN  /\ Len(r) = IF n < 4 THEN n ELSE 4
                     /\ Listed(last') \subseteq Candidates(U)
                     /\ Cardinality(Listed(last')) = Len(r)
                     /\ \A i, j \in 1..Len(r) :
                           (good(r[j]) /\ ~good(r[i])) => j < i
                     /\ \A v \in Candidates(U) \ Listed(last') :
                           good(v) => \A w \in Listed(last') : good(w)]_vars

\* the limit cut a list that holds users of a compatible and of an
\* incompatible type
C13_Witness ==
    /\ last.op = "list"
    /\ last.result = "ok"
    /\ Len(last.users) = 4
    /\ Cardinality(Candidates(last.cu)) > 4
    /\ \E v, w \in Listed(last) :
          /\ Mbti(v) \in CompatibleWith(last.cu)
          /\ Mbti(w) \notin CompatibleWith(last.cu)

\* C14: the candidate list of U fails with NotFound exactly when U has no
\* eligible candidate; it never returns an empty sequence, and it returns a
\* non-empty sequence whenever an eligible candidate exists.
C14_EmptyListNotFound ==
    [][\A h \in Handlers, U \in DOMAIN matching_status :
          ListCandidates(h, U)
              => /\ last'.result = "NotFound" <=> Candidates(U) = {}
                 /\ last'.result = "ok" => last'.users # <<>>
                 /\ Candidates(U) # {}
                       => last'.result = "ok" /\ last'.users # <<>>]_vars

\* the list failed although users of the other gender exist: all of them
\* are matched
C14_Witness ==
    /\ last.op = "list"
    /\ last.result = "NotFound"
    /\ \E v \in DOMAIN matching_status : Gender(v) # Gender(last.cu)
    /\ Candidates(last.cu) = {}

\* C15: after any sequence of operations, the partner lookup of U returns
\* the other party of the most recently created Match in which U is
\* requester or responder, whatever the status of that Match, and fails
\* with NotFound exactly when U is party to no Match.
C15_NewestMatchPartner ==
    [][\A h \in Handlers, U \in Users :
          GetActivePartner(h, U)
              => LET S == {i \in DOMAIN matches :
                              U \in {matches[i].requester_id,
                                     matches[i].responder_id}}
                 IN  /\ last'.result = "NotFound" <=> S = {}
                     /\ S # {} =>
                           \E i \in S :
                               /\ \A j \in S : j <= i
                               /\ last'.result = "ok"
                               /\ Len(last'.users) = 1
                               /\ {U, last'.users[1]}
                                     = {matches[i].requester_id,
                                        matches[i].responder_id}]_vars

\* the partner of a user who is party to two Matches was returned
C15_Witness ==
    /\ last.op = "partner"
    /\ last.result = "ok"
    /\ Cardinality({i \in DOMAIN matches :
                       last.cu \in {matches[i].requester_id,
                                    matches[i].responder_id}}) >= 2

====
